---------------------------- MODULE Spec2Model ----------------------------
(***************************************************************************)
(* A model of standardize_addresses.py: the text preprocessor, the house   *)
(* number and street normalizers, the per-batch orchestrator, main's       *)
(* chunk loop and the command-line parser.                                 *)
(*                                                                         *)
(* Text is a sequence of one-character strings: <<"S","T">> is "ST" and    *)
(* <<>> is the empty string.                                               *)
(***************************************************************************)
EXTENDS Integers, Sequences, FiniteSets, TLC

VARIABLES
    \* one field value through preprocess and a normalizer
    kind,       \* which function the run exercises: "ws", "hn" or "st"
    pc,         \* position of the run
    raw,        \* the raw field value
    text,       \* the value after the last preprocess call
    prev,       \* the value before the last preprocess call
    npre,       \* number of preprocess calls made
    hn,         \* result of standardize_housenum
    st,         \* result of standardize_street
    \* main
    mpc,        \* position of main
    rows,       \* the data rows of the input file
    chunksize,  \* args.chunksize
    sep,        \* args.sep
    existed,    \* whether the output file existed when main started
    outExists,  \* os.path.exists(args.output_file)
    outFile,    \* the lines of the output file
    pos,        \* number of input rows the reader has yielded
    nchunks,    \* number of chunks written in full
    \* parse_args
    apc,        \* position of the parse_args run
    argv,       \* the command line: a sequence of <<option, value>> pairs
    args        \* what parse_args ends in

coreVars == <<kind, pc, raw, text, prev, npre, hn, st>>

mainVars ==
    <<mpc, rows, chunksize, sep, existed, outExists, outFile, pos, nchunks>>

argVars == <<apc, argv, args>>

vars == <<coreVars, mainVars, argVars>>

-----------------------------------------------------------------------------
(* Bounds *)

MaxWs == 5
MaxChars == 4
MaxTokens == 3
MaxRows == 3
MaxChunk == 2
MaxArgs == 5

-----------------------------------------------------------------------------
(* Characters *)

SP == " "
TAB == "\t"

\* the characters Python's \s and str.strip treat as whitespace
Whitespace == {SP, TAB}

Digits == {"0", "1", "2", "3", "4", "5", "6", "7", "8", "9"}

UpperLetters ==
    {"A", "B", "C", "D", "E", "F", "G", "H", "I", "J", "K", "L", "M",
     "N", "O", "P", "Q", "R", "S", "T", "U", "V", "W", "X", "Y", "Z"}

LowerToUpper ==
    {<<"a", "A">>, <<"b", "B">>, <<"c", "C">>, <<"d", "D">>, <<"e", "E">>,
     <<"f", "F">>, <<"g", "G">>, <<"h", "H">>, <<"i", "I">>, <<"j", "J">>,
     <<"k", "K">>, <<"l", "L">>, <<"m", "M">>, <<"n", "N">>, <<"o", "O">>,
     <<"p", "P">>, <<"q", "Q">>, <<"r", "R">>, <<"s", "S">>, <<"t", "T">>,
     <<"u", "U">>, <<"v", "V">>, <<"w", "W">>, <<"x", "X">>, <<"y", "Y">>,
     <<"z", "Z">>}

\* str.upper on one character
UpperChar(c) ==
    IF \E p \in LowerToUpper : p[1] = c
    THEN (CHOOSE p \in LowerToUpper : p[1] = c)[2]
    ELSE c

\* str.upper
upper(s) == [i \in 1..Len(s) |-> UpperChar(s[i])]

RECURSIVE lstrip(_)
lstrip(s) ==
    IF Len(s) > 0 /\ s[1] \in Whitespace THEN lstrip(Tail(s)) ELSE s

RECURSIVE rstrip(_)
rstrip(s) ==
    IF Len(s) > 0 /\ s[Len(s)] \in Whitespace
    THEN rstrip(SubSeq(s, 1, Len(s) - 1))
    ELSE s

\* str.strip
strip(s) == rstrip(lstrip(s))

\* consecutive_spaces.search(s): some two adjacent whitespace characters
search_ws2(s) ==
    \E i \in 1..(Len(s) - 1) : s[i] \in Whitespace /\ s[i + 1] \in Whitespace

\* consecutive_spaces.sub(' ', s): one left-to-right pass over the
\* non-overlapping matches of \s\s
RECURSIVE sub_ws2(_)
sub_ws2(s) ==
    IF Len(s) < 2 THEN s
    ELSE IF s[1] \in Whitespace /\ s[2] \in Whitespace
         THEN <<SP>> \o sub_ws2(SubSeq(s, 3, Len(s)))
         ELSE <<s[1]>> \o sub_ws2(Tail(s))

\* the while loop of preprocess
RECURSIVE collapse(_)
collapse(s) == IF search_ws2(s) THEN collapse(sub_ws2(s)) ELSE s

\* faulty variant: a single substitution pass instead of the loop
preprocess_one_pass(data) == sub_ws2(strip(upper(data)))

preprocess(data) == collapse(strip(upper(data)))

-----------------------------------------------------------------------------
(* re.split(r'\s*&\s*|\s*,\s*|\s+AND\s+|\s+OR\s+', s) *)

\* length of the whitespace run of s that starts at position i
RECURSIVE ws_run(_, _)
ws_run(s, i) ==
    IF i <= Len(s) /\ s[i] \in Whitespace THEN 1 + ws_run(s, i + 1) ELSE 0

\* whether the literal word w occurs in s at position i
word_at(s, i, w) ==
    /\ i + Len(w) - 1 <= Len(s)
    /\ \A k \in 1..Len(w) : s[i + k - 1] = w[k]

\* the position just after the delimiter matched at position i, trying the
\* four alternatives in order; 0 when none matches at i
delim_end(s, i) ==
    LET k == ws_run(s, i)
        j == i + k
    IN  IF word_at(s, j, <<"&">>) THEN j + 1 + ws_run(s, j + 1)
        ELSE IF word_at(s, j, <<",">>) THEN j + 1 + ws_run(s, j + 1)
        ELSE IF k >= 1 /\ word_at(s, j, <<"A", "N", "D">>) /\ ws_run(s, j + 3) >= 1
             THEN j + 3 + ws_run(s, j + 3)
        ELSE IF k >= 1 /\ word_at(s, j, <<"O", "R">>) /\ ws_run(s, j + 2) >= 1
             THEN j + 2 + ws_run(s, j + 2)
        ELSE 0

\* the pieces of s from position start on, scanning for the leftmost
\* delimiter from position i
RECURSIVE split_from(_, _, _)
split_from(s, start, i) ==
    IF i > Len(s) THEN <<SubSeq(s, start, Len(s))>>
    ELSE LET e == delim_end(s, i)
         IN  IF e > 0
             THEN <<SubSeq(s, start, i - 1)>> \o split_from(s, e, e)
             ELSE split_from(s, start, i + 1)

re_split(s) == split_from(s, 1, 1)

\* [x for x in re.split(...) if len(x)]
candidates(s) == SelectSeq(re_split(s), LAMBDA p : Len(p) > 0)

\* glue.join(parts)
RECURSIVE join(_, _)
join(parts, glue) ==
    IF Len(parts) = 0 THEN <<>>
    ELSE IF Len(parts) = 1 THEN parts[1]
    ELSE parts[1] \o glue \o join(Tail(parts), glue)

\* re.sub of a negated character class: keep only the characters of keep
keep_chars(s, keep) == SelectSeq(s, LAMBDA c : c \in keep)

\* faulty variant: every candidate after the first is cleaned before it is joined
additional_cleaned(cands) ==
    join([i \in 1..(Len(cands) - 1) |->
            keep_chars(cands[i + 1], Digits \cup UpperLetters)],
         <<",", SP>>)

\* ', '.join(xs[1:]) if xs[1:] else ''
additional(cands) ==
    IF Len(cands) > 1 THEN join(Tail(cands), <<",", SP>>) ELSE <<>>


-----------------------------------------------------------------------------
(* standardize_housenum *)

contains(s, c) == \E i \in 1..Len(s) : s[i] = c

\* str.replace(c, '')
remove_char(s, c) == SelectSeq(s, LAMBDA x : x # c)

\* re.sub('^\.+', '', s)
RECURSIVE strip_leading_dots(_)
strip_leading_dots(s) ==
    IF Len(s) > 0 /\ s[1] = "." THEN strip_leading_dots(Tail(s)) ELSE s

\* re.sub('\..*$', '', s): everything from the first '.' on is dropped
RECURSIVE truncate_at_dot(_)
truncate_at_dot(s) ==
    IF Len(s) = 0 \/ s[1] = "." THEN <<>>
    ELSE <<s[1]>> \o truncate_at_dot(Tail(s))

\* the characters re.sub('[^?0-9R\.]', '', ...) keeps
HousenumKeep == Digits \cup {"?", "R", "."}

\* faulty variant: the R characters are flagged but left in the value
housenum_primary_keeps_rear(cleaned) ==
    truncate_at_dot(strip_leading_dots(cleaned))

\* lines 73-77: the primary value from the cleaned first candidate
housenum_primary(cleaned) ==
    LET no_rear == IF contains(cleaned, "R")
                   THEN remove_char(cleaned, "R")
                   ELSE cleaned
    IN  truncate_at_dot(strip_leading_dots(no_rear))

NoResult ==
    [outcome |-> "none", v1 |-> <<>>, v2 |-> <<>>, v3 |-> <<>>, v4 |-> <<>>]

\* housenums[0] / streets[0] on an empty list
IndexError ==
    [outcome |-> "IndexError", v1 |-> <<>>, v2 |-> <<>>, v3 |-> <<>>, v4 |-> <<>>]

\* the tuple (housenum_std, partial, rear, additional_housenums), or the
\* exception the call ends in
standardize_housenum(housenum) ==
    LET housenums == candidates(housenum)
        additional_housenums == additional(housenums)
    IN  IF Len(housenums) = 0 THEN IndexError
        ELSE LET cleaned == keep_chars(housenums[1], HousenumKeep)
                 partial == IF contains(cleaned, "?") THEN <<"P">> ELSE <<>>
                 rear == IF contains(cleaned, "R") THEN <<"R">> ELSE <<>>
             IN  [outcome |-> "ok",
                  v1 |-> housenum_primary(cleaned),
                  v2 |-> partial,
                  v3 |-> rear,
                  v4 |-> additional_housenums]

-----------------------------------------------------------------------------
(* standardize_street *)

directionals ==
    {<<<<"N">>, <<"N">>>>,
     <<<<"N", "E">>, <<"N", "E">>>>,
     <<<<"E">>, <<"E">>>>,
     <<<<"S", "E">>, <<"S", "E">>>>,
     <<<<"S">>, <<"S">>>>,
     <<<<"S", "W">>, <<"S", "W">>>>,
     <<<<"W">>, <<"W">>>>,
     <<<<"N", "W">>, <<"N", "W">>>>,
     <<<<"N", "O", "R", "T", "H">>, <<"N">>>>,
     <<<<"N", "O", "R", "T", "H", "E", "A", "S", "T">>, <<"N", "E">>>>,
     <<<<"E", "A", "S", "T">>, <<"E">>>>,
     <<<<"S", "O", "U", "T", "H", "E", "A", "S", "T">>, <<"S", "E">>>>,
     <<<<"S", "O", "U", "T", "H">>, <<"S">>>>,
     <<<<"S", "O", "U", "T", "H", "W", "E", "S", "T">>, <<"S", "W">>>>,
     <<<<"W", "E", "S", "T">>, <<"W">>>>,
     <<<<"N", "O", "R", "T", "H", "W", "E", "S", "T">>, <<"N", "W">>>>}

suffixes ==
    {<<<<"A", "L", "L", "E", "E">>, <<"A", "L", "L", "E", "Y">>>>,
     <<<<"A", "L", "L", "E", "Y">>, <<"A", "L", "L", "E", "Y">>>>,
     <<<<"A", "L", "L", "Y">>, <<"A", "L", "L", "E", "Y">>>>,
     <<<<"A", "L", "Y">>, <<"A", "L", "L", "E", "Y">>>>,
     <<<<"A", "V">>, <<"A", "V", "E">>>>,
     <<<<"A", "V", "E">>, <<"A", "V", "E">>>>,
     <<<<"A", "V", "E", "N">>, <<"A", "V", "E">>>>,
     <<<<"A", "V", "E", "N", "U">>, <<"A", "V", "E">>>>,
     <<<<"A", "V", "E", "N", "U", "E">>, <<"A", "V", "E">>>>,
     <<<<"A", "V", "N">>, <<"A", "V", "E">>>>,
     <<<<"A", "V", "N", "U", "E">>, <<"A", "V", "E">>>>,
     <<<<"H", "I", "G", "H", "W", "A", "Y">>, <<"H", "W", "Y">>>>,
     <<<<"H", "I", "G", "H", "W", "Y">>, <<"H", "W", "Y">>>>,
     <<<<"H", "I", "W", "A", "Y">>, <<"H", "W", "Y">>>>,
     <<<<"H", "I", "W", "Y">>, <<"H", "W", "Y">>>>,
     <<<<"H", "W", "A", "Y">>, <<"H", "W", "Y">>>>,
     <<<<"H", "W", "Y">>, <<"H", "W", "Y">>>>,
     <<<<"P", "L">>, <<"P", "L">>>>,
     <<<<"P", "L", "A", "C", "E">>, <<"P", "L">>>>,
     <<<<"R", "D">>, <<"R", "D">>>>,
     <<<<"R", "O", "A", "D">>, <<"R", "D">>>>,
     <<<<"S", "T", "R", "E", "E", "T">>, <<"S", "T">>>>,
     <<<<"S", "T", "R", "T">>, <<"S", "T">>>>,
     <<<<"S", "T">>, <<"S", "T">>>>,
     <<<<"S", "T", "R">>, <<"S", "T">>>>}

in_table(tbl, k) == \E p \in tbl : p[1] = k

lookup(tbl, k) == (CHOOSE p \in tbl : p[1] = k)[2]

ILLEGIBLE == <<"I", "L", "L", "E", "G", "I", "B", "L", "E">>

NO == <<"N", "O">>

ST == <<"S", "T">>

\* str.split() with no argument: the maximal runs of non-whitespace
RECURSIVE str_split_from(_, _)
str_split_from(s, cur) ==
    IF Len(s) = 0 THEN (IF Len(cur) > 0 THEN <<cur>> ELSE <<>>)
    ELSE IF s[1] \in Whitespace
         THEN (IF Len(cur) > 0 THEN <<cur>> ELSE <<>>)
              \o str_split_from(Tail(s), <<>>)
         ELSE str_split_from(Tail(s), Append(cur, s[1]))

str_split(s) == str_split_from(s, <<>>)

\* re.sub('[^A-Z0-9]', '', street_part)
clean_part(street_part) == keep_chars(street_part, UpperLetters \cup Digits)

\* faulty variant: the leading-ST rule is missing
classify_part_no_st_rule(acc, index, street_part, n) ==
    LET part == clean_part(street_part)
    IN  IF in_table(directionals, part)
        THEN [acc EXCEPT !.directional = lookup(directionals, part)]
        ELSE IF in_table(suffixes, part)
        THEN [acc EXCEPT !.suffix = lookup(suffixes, part)]
        ELSE IF Len(part) > 0 /\ part # ILLEGIBLE /\ part # NO
        THEN [acc EXCEPT !.names = Append(@, part)]
        ELSE acc

\* faulty variant: the first matching directional or suffix is kept
classify_part_first_wins(acc, index, street_part, n) ==
    LET part == clean_part(street_part)
    IN  IF part = ST /\ index = 0 /\ n > 1
        THEN [acc EXCEPT !.names = Append(@, part)]
        ELSE IF in_table(directionals, part)
        THEN (IF acc.directional = <<>>
              THEN [acc EXCEPT !.directional = lookup(directionals, part)]
              ELSE acc)
        ELSE IF in_table(suffixes, part)
        THEN (IF acc.suffix = <<>>
              THEN [acc EXCEPT !.suffix = lookup(suffixes, part)]
              ELSE acc)
        ELSE IF Len(part) > 0 /\ part # ILLEGIBLE /\ part # NO
        THEN [acc EXCEPT !.names = Append(@, part)]
        ELSE acc

\* faulty variant: the sentinels are not skipped
classify_part_keeps_sentinels(acc, index, street_part, n) ==
    LET part == clean_part(street_part)
    IN  IF part = ST /\ index = 0 /\ n > 1
        THEN [acc EXCEPT !.names = Append(@, part)]
        ELSE IF in_table(directionals, part)
        THEN [acc EXCEPT !.directional = lookup(directionals, part)]
        ELSE IF in_table(suffixes, part)
        THEN [acc EXCEPT !.suffix = lookup(suffixes, part)]
        ELSE IF Len(part) > 0
        THEN [acc EXCEPT !.names = Append(@, part)]
        ELSE acc

\* one iteration of the loop over enumerate(street_parts); index counts
\* from 0 and n is len(street_parts)
classify_part(acc, index, street_part, n) ==
    LET part == clean_part(street_part)
    IN  IF part = ST /\ index = 0 /\ n > 1
        THEN [acc EXCEPT !.names = Append(@, part)]
        ELSE IF in_table(directionals, part)
        THEN [acc EXCEPT !.directional = lookup(directionals, part)]
        ELSE IF in_table(suffixes, part)
        THEN [acc EXCEPT !.suffix = lookup(suffixes, part)]
        ELSE IF Len(part) > 0 /\ part # ILLEGIBLE /\ part # NO
        THEN [acc EXCEPT !.names = Append(@, part)]
        ELSE acc

\* the loop: the accumulators after the parts from position i (1-based) on
RECURSIVE classify_from(_, _, _)
classify_from(street_parts, i, acc) ==
    IF i > Len(street_parts) THEN acc
    ELSE classify_from(street_parts, i + 1,
                       classify_part(acc, i - 1, street_parts[i],
                                     Len(street_parts)))

\* lines 125-127
street_parts_of(primary) ==
    IF primary \in {ILLEGIBLE, NO} THEN <<>> ELSE str_split(primary)

standardize_street(street) ==
    LET streets == candidates(street)
        additional_streets == additional(streets)
    IN  IF Len(streets) = 0 THEN IndexError
        ELSE LET acc == classify_from(
                            street_parts_of(streets[1]), 1,
                            [names |-> <<>>, suffix |-> <<>>,
                             directional |-> <<>>])
             IN  [outcome |-> "ok",
                  v1 |-> join(acc.names, <<SP>>),
                  v2 |-> acc.suffix,
                  v3 |-> acc.directional,
                  v4 |-> additional_streets]

-----------------------------------------------------------------------------
(* The field values the runs draw from *)

\* the characters the raw values for preprocess are made of: mixed case,
\* spaces and tabs, in runs of any length, leading and trailing included
WsChars == {"a", "B", SP, TAB}

\* the concatenation of the texts of a sequence
RECURSIVE flatten(_)
flatten(ps) ==
    IF Len(ps) = 0 THEN <<>> ELSE ps[1] \o flatten(Tail(ps))

\* the pieces house number values are made of
HnPieces ==
    {<<"1", "2">>,
     <<"5">>,
     <<"?">>,
     <<"R">>,
     <<".">>,
     <<"A">>,
     <<SP>>,
     <<"&">>,
     <<",">>,
     <<SP, "O", "R", SP>>}

\* the tokens street values are made of, and what stands between them
StreetTokens ==
    {<<>>,
     <<"S", "T">>,
     <<"S", ".", "T", ".">>,
     <<"J", "A", "M", "E", "S">>,
     <<"P", "L", "A", "C", "E">>,
     <<"W", "E", "S", "T">>,
     <<"N", "O">>,
     <<"I", "L", "L", "E", "G", "I", "B", "L", "E">>}

StreetSeps ==
    {<<SP>>,
     <<TAB>>,
     <<SP, "&", SP>>,
     <<SP, "A", "N", "D", SP>>}

\* the text of the tokens toks with seps[i] between token i and token i + 1
RECURSIVE interleave(_, _)
interleave(toks, seps) ==
    IF Len(toks) = 0 THEN <<>>
    ELSE IF Len(toks) = 1 THEN toks[1]
    ELSE toks[1] \o seps[1] \o interleave(Tail(toks), Tail(seps))

\* the raw value is a text of at most MaxWs characters
DrawWsInput ==
    \E n \in 0..MaxWs : \E cs \in [1..n -> WsChars] :
        raw = [i \in 1..n |-> cs[i]]

\* the raw value is a concatenation of at most MaxChars pieces
DrawHnInput ==
    \E n \in 0..MaxChars : \E ps \in [1..n -> HnPieces] :
        raw = flatten([i \in 1..n |-> ps[i]])

\* the raw value is at most MaxTokens tokens with a separator between
\* neighbours
DrawStreetInput ==
    \/ raw = <<>>
    \/ \E n \in 1..MaxTokens :
          \E toks \in [1..n -> StreetTokens] :
             \E seps \in [1..(n - 1) -> StreetSeps] :
                raw = interleave([i \in 1..n |-> toks[i]],
                                 [i \in 1..(n - 1) |-> seps[i]])

-----------------------------------------------------------------------------
(* One field value through preprocess and one of the normalizers *)

\* the parts of the state a run does not use
CoreIdle ==
    /\ kind = "ws" /\ pc = "idle" /\ raw = <<>> /\ text = <<>> /\ prev = <<>>
    /\ npre = 0 /\ hn = NoResult /\ st = NoResult

MainIdle ==
    /\ mpc = "idle" /\ rows = <<>> /\ chunksize = 1 /\ sep = ","
    /\ existed = FALSE /\ outExists = FALSE /\ outFile = <<>>
    /\ pos = 0 /\ nchunks = 0

NoArgs == [outcome |-> "none", attrs |-> <<>>, chunksize |-> 0]

ArgsIdle == apc = "idle" /\ argv = <<>> /\ args = NoArgs

Init ==
    /\ kind \in {"ws", "hn", "st"}
    /\ CASE kind = "ws" -> DrawWsInput
         [] kind = "hn" -> DrawHnInput
         [] kind = "st" -> DrawStreetInput
    /\ pc = "raw"
    /\ text = raw
    /\ prev = raw
    /\ npre = 0
    /\ hn = NoResult
    /\ st = NoResult
    /\ MainIdle
    /\ ArgsIdle

\* a call of preprocess on the current value; a second call is applied to
\* the first call's result
Preprocess ==
    /\ pc \in {"raw", "pre"}
    /\ npre < 2
    /\ npre = 1 => kind = "ws"
    /\ prev' = text
    /\ text' = preprocess(text)
    /\ npre' = npre + 1
    /\ pc' = "pre"
    /\ UNCHANGED <<kind, raw, hn, st, mainVars, argVars>>

\* standardize_housenum on the preprocessed value
StandardizeHousenum ==
    /\ pc = "pre"
    /\ kind = "hn"
    /\ hn' = standardize_housenum(text)
    /\ pc' = "done"
    /\ UNCHANGED <<kind, raw, text, prev, npre, st, mainVars, argVars>>

\* standardize_street on the preprocessed value
StandardizeStreet ==
    /\ pc = "pre"
    /\ kind = "st"
    /\ st' = standardize_street(text)
    /\ pc' = "done"
    /\ UNCHANGED <<kind, raw, text, prev, npre, hn, mainVars, argVars>>

Next ==
    \/ Preprocess
    \/ StandardizeHousenum
    \/ StandardizeStreet

Spec == Init /\ [][Next]_vars

-----------------------------------------------------------------------------
(* Properties of preprocess and the two normalizers *)

\* the result of the normalizer the run called
Result == IF kind = "hn" THEN hn ELSE st

Normalized == pc = "done" /\ kind \in {"hn", "st"}

\* C1: whenever the preprocessed input yields no candidate after the split
\* and the discarding of empty pieces, standardize_housenum and
\* standardize_street end in an explicit EmptyValueError, never in an
\* out-of-range access on the first candidate.
C1_EmptySplitRaisesEmptyValueError ==
    (Normalized /\ Len(candidates(text)) = 0)
        => Result.outcome = "EmptyValueError"

\* C2 as stated: the primary house number holds only digits, optionally
\* after one leading '?': no R, no '.', no '?' past the first position.
C2_PrimaryDigitsAfterLeadingMark ==
    (pc = "done" /\ kind = "hn" /\ hn.outcome = "ok")
        => \A i \in 1..Len(hn.v1) :
              \/ hn.v1[i] \in Digits
              \/ (i = 1 /\ hn.v1[i] = "?")

\* C2 as amended: the primary house number holds only digits and '?'
\* characters, a '?' at any position and any number of times; it holds no R
\* and no '.', and everything from the first '.' of the cleaned value on is
\* dropped ("12?.5" yields "12?" with partial "P").
C2_PrimaryDigitsAndMarks ==
    (pc = "done" /\ kind = "hn" /\ hn.outcome = "ok")
        => /\ \A i \in 1..Len(hn.v1) : hn.v1[i] \in Digits \cup {"?"}
           /\ (text = <<"1", "2", "?", ".", "5">>) =>
                 (hn.v1 = <<"1", "2", "?">> /\ hn.v2 = <<"P">>)

C2_Witness ==
    /\ pc = "done" /\ kind = "hn"
    /\ text = <<"1", "2", "?", ".", "5">>
    /\ hn = [outcome |-> "ok", v1 |-> <<"1", "2", "?">>, v2 |-> <<"P">>,
             v3 |-> <<>>, v4 |-> <<>>]

\* the whitespace-separated raw tokens of the primary street candidate
PrimaryParts == str_split(candidates(text)[1])

StreetDone == pc = "done" /\ kind = "st" /\ st.outcome = "ok"

\* the words of the returned street name
NameWords == str_split(st.v1)

\* C3: a first token whose cleaned value is ST, in a primary candidate of
\* more than one raw token, is the first word of the name and does not set
\* the suffix; an ST that is the only raw token is the suffix ST and the
\* name is empty.
C3_LeadingStIsName ==
    StreetDone =>
        LET parts == PrimaryParts
            n == Len(parts)
        IN  /\ (n > 1 /\ clean_part(parts[1]) = ST) =>
                  /\ Len(NameWords) >= 1
                  /\ NameWords[1] = ST
                  /\ (\A i \in 2..n : ~in_table(suffixes, clean_part(parts[i])))
                        => st.v2 = <<>>
            /\ (n = 1 /\ clean_part(parts[1]) = ST) =>
                  (st.v2 = ST /\ st.v1 = <<>>)
            /\ (text = <<"S", "T", SP, "J", "A", "M", "E", "S", SP, "P", "L", "A", "C", "E">>) =>
                  /\ st.v1 = <<"S", "T", SP, "J", "A", "M", "E", "S">>
                  /\ st.v2 = <<"P", "L">>
                  /\ st.v3 = <<>>

C3_Witness ==
    /\ StreetDone
    /\ text = <<"S", "T", SP, "J", "A", "M", "E", "S", SP, "P", "L", "A", "C", "E">>
    /\ st.v1 = <<"S", "T", SP, "J", "A", "M", "E", "S">>
    /\ st.v2 = <<"P", "L">>

\* the offset in the joined text at which candidate k (k >= 2) starts
RECURSIVE AdditionalOffset(_, _)
AdditionalOffset(cands, k) ==
    IF k <= 2 THEN 0
    ELSE AdditionalOffset(cands, k - 1) + Len(cands[k - 1]) + 2

\* C4: the additional output is the candidates after the first, each
\* verbatim and in order, joined with ", "; it is empty when there is one
\* candidate.
C4_AdditionalVerbatim ==
    (Normalized /\ Result.outcome = "ok") =>
        LET cands == candidates(text)
            n == Len(cands)
            out == Result.v4
        IN  /\ n = 1 => out = <<>>
            /\ n > 1 =>
                  /\ Len(out) = AdditionalOffset(cands, n) + Len(cands[n])
                  /\ \A k \in 2..n :
                        LET off == AdditionalOffset(cands, k)
                        IN  /\ SubSeq(out, off + 1, off + Len(cands[k])) = cands[k]
                            /\ k > 2 => (out[off - 1] = "," /\ out[off] = SP)

C4_Witness ==
    /\ StreetDone
    /\ text = <<"J", "A", "M", "E", "S", SP, "&", SP, "S", ".", "T", ".", SP, "P", "L", "A", "C", "E">>
    /\ st.v4 = <<"S", ".", "T", ".", SP, "P", "L", "A", "C", "E">>

\* C5: a primary candidate that is exactly ILLEGIBLE or NO gives an empty
\* name, suffix and directional; in any other candidate a token whose
\* cleaned value is ILLEGIBLE or NO is skipped, so no word of the name is
\* one of them.
C5_SentinelsNeverContribute ==
    StreetDone =>
        /\ candidates(text)[1] \in {ILLEGIBLE, NO} =>
              (st.v1 = <<>> /\ st.v2 = <<>> /\ st.v3 = <<>>)
        /\ \A k \in 1..Len(NameWords) : NameWords[k] \notin {ILLEGIBLE, NO}

C5_Witness ==
    /\ StreetDone
    /\ text = <<"J", "A", "M", "E", "S", SP, "N", "O", SP, "P", "L", "A", "C", "E">>
    /\ st.v1 = <<"J", "A", "M", "E", "S">>
    /\ st.v2 = <<"P", "L">>

\* C6: a second preprocess call leaves the first call's result unchanged.
C6_PreprocessIdempotent == npre = 2 => text = prev

C6_Witness ==
    /\ npre = 2
    /\ raw = <<"a", SP, TAB, SP, "B">>
    /\ text = <<"A", SP, "B">>

IsLeadingSt(parts, i) ==
    i = 1 /\ Len(parts) > 1 /\ clean_part(parts[1]) = ST

Maximum(S) == CHOOSE x \in S : \A y \in S : y <= x

-----------------------------------------------------------------------------
(* standardize_addresses and main *)

\* the house number and street fields of the input rows the runs draw from
RowValues ==
    {[hn |-> <<"1", "2", SP, "&", SP, "5">>,
      st |-> <<"J", "A", "M", "E", "S", SP, "S", "T", SP, "&", SP, "W", "E", "S", "T", SP, "P", "L", "A", "C", "E">>],
     [hn |-> <<"1", "2", "?", ".", "5">>,
      st |-> <<"s", "t", SP, SP, "j", "a", "m", "e", "s", SP, SP, "p", "l", "a", "c", "e">>],
     [hn |-> <<>>,
      st |-> <<>>],
     [hn |-> <<"1", "2", SP, "&", SP, "5", SP, "&", SP, "5">>,
      st |-> <<"J", "A", "M", "E", "S", SP, "S", "T">>]}

Separators == {",", "|"}

\* the line to_csv writes for the column names
HeaderLine == [tag |-> "header", id |-> 0, fields |-> <<>>]

\* what an output file left by an earlier run holds
OldFile == <<[tag |-> "old", id |-> 0, fields |-> <<>>]>>

\* faulty variant: the rows of the batch come back in reverse order
standardize_addresses_reversed(dataframe) ==
    LET n == Len(dataframe)
        pre == [k \in 1..n |->
                  [id |-> dataframe[k].id,
                   hn |-> preprocess(dataframe[k].hn),
                   st |-> preprocess(dataframe[k].st)]]
        hns == [k \in 1..n |-> standardize_housenum(pre[k].hn)]
        sts == [k \in 1..n |-> standardize_street(pre[k].st)]
    IN  IF \E k \in 1..n : hns[k].outcome # "ok" \/ sts[k].outcome # "ok"
        THEN [outcome |-> "IndexError", rows |-> <<>>]
        ELSE [outcome |-> "ok",
              rows |-> [k \in 1..n |->
                          LET j == n + 1 - k
                          IN  [tag |-> "row",
                               id |-> pre[j].id,
                               fields |-> <<pre[j].hn, pre[j].st,
                                            hns[j].v1, hns[j].v2, hns[j].v3,
                                            hns[j].v4, sts[j].v1, sts[j].v2,
                                            sts[j].v3, sts[j].v4>>]]]

\* the batch with both source columns preprocessed and the eight derived
\* columns added, one output row per input row in the same position; or
\* the exception of the first normalizer call that raises
standardize_addresses(dataframe) ==
    LET n == Len(dataframe)
        pre == [k \in 1..n |->
                  [id |-> dataframe[k].id,
                   hn |-> preprocess(dataframe[k].hn),
                   st |-> preprocess(dataframe[k].st)]]
        hns == [k \in 1..n |-> standardize_housenum(pre[k].hn)]
        sts == [k \in 1..n |-> standardize_street(pre[k].st)]
    IN  IF \E k \in 1..n : hns[k].outcome # "ok" \/ sts[k].outcome # "ok"
        THEN [outcome |-> "IndexError", rows |-> <<>>]
        ELSE [outcome |-> "ok",
              rows |-> [k \in 1..n |->
                          [tag |-> "row",
                           id |-> pre[k].id,
                           fields |-> <<pre[k].hn, pre[k].st,
                                        hns[k].v1, hns[k].v2, hns[k].v3,
                                        hns[k].v4, sts[k].v1, sts[k].v2,
                                        sts[k].v3, sts[k].v4>>]]]

\* mode = 'a' if os.path.exists(args.output_file) else 'w'
chunk_mode(exists) == IF exists THEN "a" ELSE "w"

\* faulty variant: every chunk is written with the header
chunk_header_always(mode) == TRUE

\* header = (mode == 'w')
chunk_header(mode) == mode = "w"

\* with QUOTE_NONE and no escape character the csv writer refuses a row
\* one of whose fields holds the column separator
needs_escape(line, separator) ==
    \E i \in 1..Len(line.fields) : contains(line.fields[i], separator)

Minimum(S) == CHOOSE x \in S : \A y \in S : x <= y

\* DataFrame.to_csv: the file after the call and how the call ends; rows
\* are written one by one, so a refused row leaves the ones before it
to_csv(file, standardized, mode, header, separator) ==
    LET base == IF mode = "w" THEN <<>> ELSE file
        head == IF header THEN <<HeaderLine>> ELSE <<>>
        bad == {k \in 1..Len(standardized) :
                   needs_escape(standardized[k], separator)}
    IN  IF bad = {}
        THEN [outcome |-> "ok", file |-> base \o head \o standardized]
        ELSE [outcome |-> "csv.Error",
              file |-> base \o head
                         \o SubSeq(standardized, 1, Minimum(bad) - 1)]

\* the next dataframe the reader yields
next_chunk(data, done, size) ==
    SubSeq(data, done + 1,
           IF done + size <= Len(data) THEN done + size ELSE Len(data))

MainInit ==
    /\ CoreIdle
    /\ ArgsIdle
    /\ mpc = "start"
    /\ \E n \in 1..MaxRows : \E vals \in [1..n -> RowValues] :
          rows = [k \in 1..n |->
                    [id |-> k, hn |-> vals[k].hn, st |-> vals[k].st]]
    /\ chunksize \in 1..MaxChunk
    /\ sep \in Separators
    /\ existed \in BOOLEAN
    /\ outExists = existed
    /\ outFile = IF existed THEN OldFile ELSE <<>>
    /\ pos = 0
    /\ nchunks = 0

\* lines 183-187: the assertion on the output file, then the reader
MainStart ==
    /\ mpc = "start"
    /\ mpc' = IF outExists THEN "AssertionError" ELSE "loop"
    /\ UNCHANGED <<rows, chunksize, sep, existed, outExists, outFile, pos,
                   nchunks, coreVars, argVars>>

\* lines 188-198: one iteration of the loop over the reader
MainChunk ==
    /\ mpc = "loop"
    /\ pos < Len(rows)
    /\ LET dataframe == next_chunk(rows, pos, chunksize)
           standardized == standardize_addresses(dataframe)
           mode == chunk_mode(outExists)
           header == chunk_header(mode)
           written == to_csv(outFile, standardized.rows, mode, header, sep)
       IN  IF standardized.outcome # "ok"
           THEN /\ mpc' = standardized.outcome
                /\ pos' = pos + Len(dataframe)
                /\ UNCHANGED <<outExists, outFile, nchunks>>
           ELSE /\ outFile' = written.file
                /\ outExists' = TRUE
                /\ pos' = pos + Len(dataframe)
                /\ IF written.outcome = "ok"
                   THEN mpc' = "loop" /\ nchunks' = nchunks + 1
                   ELSE mpc' = written.outcome /\ UNCHANGED nchunks
    /\ UNCHANGED <<rows, chunksize, sep, existed, coreVars, argVars>>

\* the reader is exhausted and main returns
MainEnd ==
    /\ mpc = "loop"
    /\ pos = Len(rows)
    /\ mpc' = "done"
    /\ UNCHANGED <<rows, chunksize, sep, existed, outExists, outFile, pos,
                   nchunks, coreVars, argVars>>

MainNext ==
    \/ MainStart
    \/ MainChunk
    \/ MainEnd

SpecMain == MainInit /\ [][MainNext]_vars

\* the line of the output file that input row k standardizes to
ExpectedLine(k) ==
    LET h == preprocess(rows[k].hn)
        s == preprocess(rows[k].st)
        a == standardize_housenum(h)
        b == standardize_street(s)
    IN  [tag |-> "row", id |-> k,
         fields |-> <<h, s, a.v1, a.v2, a.v3, a.v4, b.v1, b.v2, b.v3, b.v4>>]

\* C7: as long as no record raises an error, the data lines of the output
\* file are the standardized input rows the reader has yielded, one line
\* per row and in the input order; when main returns that is every row.
C7_RowsInInputOrder ==
    (mpc \in {"loop", "done"} /\ ~existed) =>
        /\ pos > 0 => Len(outFile) = pos + 1
        /\ \A k \in 1..pos : outFile[k + 1] = ExpectedLine(k)
        /\ mpc = "done" => pos = Len(rows)

C7_Witness ==
    /\ mpc = "done"
    /\ ~existed
    /\ nchunks = 2
    /\ pos = 3
    /\ Len(outFile) = 4
    /\ outFile[2].fields[9] = <<>>
    /\ outFile[3].fields[7] = <<"S", "T", SP, "J", "A", "M", "E", "S">>

\* C10: an output file that exists when main starts makes main fail before
\* any chunk is read or written and is left unchanged; otherwise the
\* first chunk is written with the header and the later ones appended
\* without it, so the file holds one header line, its first line.
C10_OneHeaderOrUntouched ==
    /\ existed =>
          /\ mpc \in {"start", "AssertionError"}
          /\ outFile = OldFile
          /\ pos = 0
          /\ nchunks = 0
    /\ (~existed /\ nchunks = 0 /\ mpc \in {"start", "loop"}) => ~outExists
    /\ (~existed /\ outExists) =>
          /\ Len(outFile) >= 1
          /\ outFile[1] = HeaderLine
          /\ \A i \in 2..Len(outFile) : outFile[i].tag = "row"

C10_Witness ==
    /\ ~existed
    /\ mpc = "done"
    /\ nchunks = 3
    /\ Len(outFile) = 4
    /\ outFile[1] = HeaderLine

-----------------------------------------------------------------------------
(* parse_args *)

\* the options the parser defines, as <<option string, attribute>>
ParserOptions ==
    {<<"--input_file", "input_file">>,
     <<"--output_file", "output_file">>,
     <<"--housenum_column", "housenum_column">>,
     <<"--street_column", "street_column">>,
     <<"--sep", "sep">>,
     <<"--chunksize", "chunksize">>}

\* the options added with required=True
RequiredOptions ==
    {"--input_file", "--output_file", "--housenum_column", "--street_column"}

\* the attributes that hold the supplied string as it is
StringAttributes ==
    {"input_file", "output_file", "housenum_column", "street_column", "sep"}

DefaultSep == <<",">>

DefaultChunksize == 100000

DigitChars == <<"0", "1", "2", "3", "4", "5", "6", "7", "8", "9">>

digit_value(c) == (CHOOSE i \in 1..10 : DigitChars[i] = c) - 1

\* whether int(s) succeeds: a non-empty run of decimal digits
is_int(s) == Len(s) > 0 /\ \A i \in 1..Len(s) : s[i] \in Digits

\* int(s) for a run of decimal digits
RECURSIVE int_of(_)
int_of(s) ==
    IF Len(s) = 0 THEN 0
    ELSE 10 * int_of(SubSeq(s, 1, Len(s) - 1)) + digit_value(s[Len(s)])

\* the value of the last occurrence of option opt, or default
last_value(cmdline, opt, default) ==
    LET at == {i \in 1..Len(cmdline) : cmdline[i][1] = opt}
    IN  IF at = {} THEN default ELSE cmdline[Maximum(at)][2]

\* parser.parse_args() on a command line of <<option, value>> pairs: the
\* namespace, or the exit ArgumentParser.error ends in
parse_args(cmdline) ==
    LET known == {o[1] : o \in ParserOptions}
        given == {cmdline[i][1] : i \in 1..Len(cmdline)}
        unrecognized == given \ known
        missing == RequiredOptions \ given
        bad_int == \E i \in 1..Len(cmdline) :
                      cmdline[i][1] = "--chunksize" /\ ~is_int(cmdline[i][2])
    IN  IF unrecognized # {} \/ missing # {} \/ bad_int
        THEN [outcome |-> "SystemExit", attrs |-> <<>>, chunksize |-> 0]
        ELSE [outcome |-> "ok",
              attrs |-> [a \in StringAttributes |->
                           last_value(cmdline, "--" \o a,
                                      IF a = "sep" THEN DefaultSep ELSE <<>>)],
              chunksize |->
                  IF "--chunksize" \in given
                  THEN int_of(last_value(cmdline, "--chunksize", <<>>))
                  ELSE DefaultChunksize]

\* the <<option, value>> pairs the command lines are built from
ArgPairs ==
    {<<"--input_file", <<"a", "d", "d", "r", "e", "s", "s", "e", "s", ".", "t", "x", "t">>>>,
     <<"--output_file", <<"s", "t", "a", "n", "d", "a", "r", "d", "i", "z", "e", "d", "_", "a", "d", "d", "r", "e", "s", "s", "e", "s", ".", "t", "x", "t">>>>,
     <<"--address_column", <<"A", "D", "D", "R", "E", "S", "S">>>>,
     <<"--housenum_column", <<"H", "O", "U", "S", "E", "N", "U", "M">>>>,
     <<"--street_column", <<"S", "T", "R", "E", "E", "T">>>>,
     <<"--sep", <<"|">>>>,
     <<"--chunksize", <<"1", "0", "0", "0", "0", "0", "0">>>>,
     <<"--chunksize", <<"1", "e", "6">>>>}

ArgsInit ==
    /\ CoreIdle
    /\ MainIdle
    /\ apc = "build"
    /\ argv = <<>>
    /\ args = NoArgs

\* one more option and its value on the command line
AddArg ==
    /\ apc = "build"
    /\ Len(argv) < MaxArgs
    /\ \E p \in ArgPairs : argv' = Append(argv, p)
    /\ UNCHANGED <<apc, args, coreVars, mainVars>>

\* the call of parse_args
ParseArgs ==
    /\ apc = "build"
    /\ args' = parse_args(argv)
    /\ apc' = "parsed"
    /\ UNCHANGED <<argv, coreVars, mainVars>>

ArgsNext ==
    \/ AddArg
    \/ ParseArgs

SpecArgs == ArgsInit /\ [][ArgsNext]_vars

\* the options of the command line of test_parse_args
TestOptions ==
    {"--input_file", "--output_file", "--address_column", "--sep",
     "--chunksize"}

\* C8: a command line that supplies --input_file, --output_file,
\* --address_column, --sep and --chunksize parses, and the attributes
\* input_file, output_file, address_column and sep hold the supplied
\* strings and chunksize the supplied value as an integer.
C8_TestCommandLineParses ==
    (/\ apc = "parsed"
     /\ Len(argv) = 5
     /\ {argv[i][1] : i \in 1..5} = TestOptions
     /\ is_int(last_value(argv, "--chunksize", <<>>)))
        => /\ args.outcome = "ok"
           /\ \A a \in {"input_file", "output_file", "address_column", "sep"} :
                 /\ a \in DOMAIN args.attrs
                 /\ args.attrs[a] = last_value(argv, "--" \o a, <<>>)
           /\ args.chunksize = 1000000

=============================================================================
